---- MODULE Spec2Model ----
(***************************************************************************)
(* Model of ons_processing/parse_files.py: the per-dataset transforms that *)
(* read one CSV file of a directory, select and rename columns, filter,    *)
(* drop rows without a local-authority code and aggregate.                 *)
(*                                                                         *)
(* A CSV file is [columns, rows] of text fields.  A data frame is          *)
(* [columns, rows] of cells; a cell is a string, a number or NaN.  A       *)
(* transform returns a Result: a frame (kind "ok") or a raised exception   *)
(* (kind "error").                                                         *)
(***************************************************************************)
EXTENDS Integers, Sequences, FiniteSets, TLC

VARIABLES dir, LA_CODE, LA_NAME, called, args, ret, alone, invoked

vars == <<dir, LA_CODE, LA_NAME, called, args, ret, alone, invoked>>

(* ------------------------------ bounds -------------------------------- *)
MaxRows == 2
MaxWellbeingRows == 2
MaxPopulationRows == 2
MaxFrameRows == 2
MaxCalls == 3

(* ------------------------------ cells --------------------------------- *)
NaN == [k |-> "nan", s |-> "", n |-> 0]
Str(s) == [k |-> "str", s |-> s, n |-> 0]
Num(n) == [k |-> "num", s |-> "", n |-> n]

isna(c) == c.k = "nan"

\* the value a numeric reduction adds for a cell: sum() skips NaN
NumOf(c) == IF c.k = "num" THEN c.n ELSE 0

(* ----------------------------- results -------------------------------- *)
Ok(columns, rows) == [kind |-> "ok", err |-> "", columns |-> columns, rows |-> rows]
Raise(e) == [kind |-> "error", err |-> e, columns |-> <<>>, rows |-> <<>>]
NoResult == [kind |-> "none", err |-> "", columns |-> <<>>, rows |-> <<>>]

(* --------------------------- sequence helpers ------------------------- *)
Range(s) == {s[i] : i \in DOMAIN s}

SeqsUpTo(S, n) == UNION {[1..m -> S] : m \in 0..n}

RECURSIVE SumSeq(_)
SumSeq(s) == IF s = <<>> THEN 0 ELSE Head(s) + SumSeq(Tail(s))

\* position of the first column called name, 0 when there is none
ColIndex(columns, name) ==
    IF \E i \in DOMAIN columns : columns[i] = name
    THEN CHOOSE i \in DOMAIN columns : columns[i] = name
    ELSE 0

HasCol(df, name) == ColIndex(df.columns, name) # 0

\* df[name] evaluated on one row
Cell(df, row, name) == row[ColIndex(df.columns, name)]

(* ------------------------------ load_df ------------------------------- *)
FileNames == {"wellbeing.csv", "population_by_age.csv", "rental.csv", "crime.csv",
              "property_sales.csv", "house_prices.csv", "earnings_price_ratio.csv"}

\* the field texts pd.read_csv reads as missing
NAValues == {"", "#N/A", "#N/A N/A", "#NA", "-1.#IND", "-1.#QNAN", "-NaN", "-nan",
             "1.#IND", "1.#QNAN", "<NA>", "N/A", "NA", "NULL", "NaN", "None",
             "n/a", "nan", "null"}

\* the numeric literals of the modelled files and their values
NumTable == ("0" :> 0) @@ ("1" :> 1) @@ ("2" :> 2) @@ ("7" :> 7) @@ ("8" :> 8)
            @@ ("10" :> 10) @@ ("15" :> 15) @@ ("91" :> 91)

IsNumLit(f) == f \in DOMAIN NumTable

\* read_csv infers one type per column: numeric when every present field is a number
IsNumCol(csv, j) ==
    \A i \in DOMAIN csv.rows :
        csv.rows[i][j] \in NAValues \/ IsNumLit(csv.rows[i][j])

ParseField(f, numeric) ==
    IF f \in NAValues THEN NaN
    ELSE IF numeric THEN Num(NumTable[f])
    ELSE Str(f)

read_csv(csv) ==
    LET numeric == [j \in DOMAIN csv.columns |-> IsNumCol(csv, j)]
    IN  Ok(csv.columns,
           [i \in DOMAIN csv.rows |->
               [j \in DOMAIN csv.columns |-> ParseField(csv.rows[i][j], numeric[j])]])

load_df(df_dir, file_name) == read_csv(df_dir[file_name])

\* a read that opens the file for writing and leaves it empty
FilesAfterLoadTruncating(df_dir, file_name) ==
    [df_dir EXCEPT ![file_name] = [columns |-> <<>>, rows |-> <<>>]]

\* reading leaves the directory as it was
FilesAfterLoad(df_dir, file_name) == df_dir

(* -------------------------- subset_rename_df -------------------------- *)
\* a name_dict is a sequence of <<raw column, new name>> with distinct raw columns
Keys(name_dict) == [i \in DOMAIN name_dict |-> name_dict[i][1]]

\* columns=name_dict of DataFrame.rename: a column that is a key gets its value
RenameCol(name_dict, c) ==
    IF \E i \in DOMAIN name_dict : name_dict[i][1] = c
    THEN name_dict[CHOOSE i \in DOMAIN name_dict : name_dict[i][1] = c][2]
    ELSE c

\* a variant that keeps the columns it finds and skips the others
SubsetLenient(df, names) ==
    LET found == SelectSeq(names, LAMBDA c : HasCol(df, c))
    IN  Ok(found,
           [r \in DOMAIN df.rows |->
               [i \in DOMAIN found |-> Cell(df, df.rows[r], found[i])]])

\* df[list_of_names]: KeyError when a name is not a column
Subset(df, names) ==
    IF \E i \in DOMAIN names : ~HasCol(df, names[i])
    THEN Raise("KeyError")
    ELSE Ok(names,
            [r \in DOMAIN df.rows |->
                [i \in DOMAIN names |-> Cell(df, df.rows[r], names[i])]])

\* rename(name_dict) without columns=: the labels of the columns stay
RenameIndex(df, name_dict) == Ok(df.columns, df.rows)

Rename(df, name_dict) ==
    Ok([i \in DOMAIN df.columns |-> RenameCol(name_dict, df.columns[i])], df.rows)

subset_rename_df(df, name_dict) ==
    LET sub == Subset(df, Keys(name_dict))
    IN  IF sub.kind = "error" THEN sub ELSE Rename(sub, name_dict)

(* ------------------------------- dropna ------------------------------- *)
\* df.dropna(how="all"): only the rows that are missing everywhere are dropped
dropna_all(df, col) ==
    IF ~HasCol(df, col) THEN Raise("KeyError")
    ELSE Ok(df.columns, SelectSeq(df.rows, LAMBDA row : \E j \in DOMAIN row : ~isna(row[j])))

\* df.dropna(subset=[col]): the rows whose col is present, in order
dropna(df, col) ==
    IF ~HasCol(df, col) THEN Raise("KeyError")
    ELSE Ok(df.columns, SelectSeq(df.rows, LAMBDA row : ~isna(Cell(df, row, col))))

(* ------------------------------ ordering ------------------------------ *)
\* the strings of the modelled files in Python's string order
Collation == <<"A", "B", "E001", "E002", "W1", "W2", "anxiety", "happiness">>

StrRank(s) == ColIndex(Collation, s)

CellRank(c) == IF c.k = "num" THEN c.n ELSE StrRank(c.s)

\* lexicographic order of two key tuples of the same length
TupleLess(a, b) ==
    \E i \in DOMAIN a :
        /\ \A j \in 1..(i - 1) : a[j] = b[j]
        /\ CellRank(a[i]) < CellRank(b[i])

RECURSIVE SortedKeys(_)
SortedKeys(S) ==
    IF S = {} THEN <<>>
    ELSE LET m == CHOOSE x \in S : \A y \in S \ {x} : TupleLess(x, y)
         IN  <<m>> \o SortedKeys(S \ {m})

(* --------------------- groupby(keys)[vals].sum() ---------------------- *)
KeyOf(df, row, keys) == [i \in DOMAIN keys |-> Cell(df, row, keys[i])]

HasNaN(t) == \E i \in DOMAIN t : isna(t[i])

\* sum of column col over the rows of df whose key tuple is key
GroupSum(df, keys, key, col) ==
    SumSeq([r \in DOMAIN df.rows |->
               IF KeyOf(df, df.rows[r], keys) = key
               THEN NumOf(Cell(df, df.rows[r], col)) ELSE 0])

\* the same aggregation keeping the rows that have no key as a group of their own
groupby_sum_keepna(df, keys, vals) ==
    IF \E i \in DOMAIN keys : ~HasCol(df, keys[i]) THEN Raise("KeyError")
    ELSE IF \E i \in DOMAIN vals : ~HasCol(df, vals[i]) THEN Raise("KeyError")
    ELSE LET present == {KeyOf(df, df.rows[r], keys) : r \in DOMAIN df.rows}
             groups  == SortedKeys(present)
         IN  Ok(keys \o vals,
                [g \in DOMAIN groups |->
                    groups[g] \o
                    [i \in DOMAIN vals |-> Num(GroupSum(df, keys, groups[g], vals[i]))]])

\* groupby drops the rows with a missing key, sorts the groups by key, and
\* reset_index() turns the keys back into leading columns
groupby_sum(df, keys, vals) ==
    IF \E i \in DOMAIN keys : ~HasCol(df, keys[i]) THEN Raise("KeyError")
    ELSE IF \E i \in DOMAIN vals : ~HasCol(df, vals[i]) THEN Raise("KeyError")
    ELSE LET present == {KeyOf(df, df.rows[r], keys) : r \in DOMAIN df.rows}
             groups  == SortedKeys({t \in present : ~HasNaN(t)})
         IN  Ok(keys \o vals,
                [g \in DOMAIN groups |->
                    groups[g] \o
                    [i \in DOMAIN vals |-> Num(GroupSum(df, keys, groups[g], vals[i]))]])

(* -------------------- the five transforms with dropna ------------------ *)
rental_cols ==
    <<<<"Area Code1", LA_CODE>>, <<"Count of rents", "rent_count">>,
      <<"Median", "median_rent">>, <<"Mean", "mean_rent">>>>

parse_rental_summary(csv_dir) ==
    LET df  == load_df(csv_dir, "rental.csv")
        sub == subset_rename_df(df, rental_cols)
    IN  IF sub.kind = "error" THEN sub ELSE dropna(sub, LA_CODE)

crime_cols ==
    <<<<"Local Authority code", LA_CODE>>,
      <<"Household figures (mid-2019) - rounded to 100", "num_households">>,
      <<"Total recorded crime\n (excluding fraud)", "total_crime">>,
      <<"Residential burglary (per 1,000 household)", "burgalry_per_household">>>>

parse_crime(csv_dir) ==
    LET df  == load_df(csv_dir, "crime.csv")
        sub == subset_rename_df(df, crime_cols)
    IN  IF sub.kind = "error" THEN sub ELSE dropna(sub, LA_CODE)

property_sales_cols ==
    <<<<"Local authority code", LA_CODE>>, <<"Ward code", "ward_code">>,
      <<"Year ending Jun 2021", "num_sold">>>>

\* the variant that returns the ward rows as they are
parse_property_sales_wards(csv_dir) ==
    LET df  == load_df(csv_dir, "property_sales.csv")
        sub == subset_rename_df(df, property_sales_cols)
    IN  IF sub.kind = "error" THEN sub ELSE dropna(sub, LA_CODE)

parse_property_sales(csv_dir) ==
    LET df  == load_df(csv_dir, "property_sales.csv")
        sub == subset_rename_df(df, property_sales_cols)
        sub_df == IF sub.kind = "error" THEN sub ELSE dropna(sub, LA_CODE)
    IN  IF sub_df.kind = "error" THEN sub_df
        ELSE groupby_sum(sub_df, <<LA_CODE>>, <<"num_sold">>)

property_prices_cols ==
    <<<<"Local authority code ", LA_CODE>>, <<"Year ending Jun 2021", "property_price">>>>

parse_property_prices(csv_dir) ==
    LET df  == load_df(csv_dir, "house_prices.csv")
        sub == subset_rename_df(df, property_prices_cols)
    IN  IF sub.kind = "error" THEN sub ELSE dropna(sub, LA_CODE)

earnings_cols ==
    <<<<"Code", LA_CODE>>, <<"2020", "earnings_house_price_ratio">>>>

parse_earnings_to_house_price(csv_dir) ==
    LET df  == load_df(csv_dir, "earnings_price_ratio.csv")
        sub == subset_rename_df(df, earnings_cols)
    IN  IF sub.kind = "error" THEN sub ELSE dropna(sub, LA_CODE)

(* --------------------------- parse_wellbeing --------------------------- *)
wellbeing_cols ==
    <<<<"V4_3", "wellbeing_score">>, <<"administrative-geography", LA_CODE>>,
      <<"measure-of-wellbeing", "wellbeing_measure">>>>

\* the filter on the estimate type alone
WellbeingKeptAnyTime(df, row) ==
    Cell(df, row, "wellbeing-estimate") = Str("average-mean")

\* the row filter of parse_wellbeing
WellbeingKept(df, row) ==
    /\ Cell(df, row, "wellbeing-estimate") = Str("average-mean")
    /\ Cell(df, row, "Time") = Str("2020-21")

\* the variant keep="last": a row stays when no later row has its key
drop_duplicates_last(df, names) ==
    IF \E i \in DOMAIN names : ~HasCol(df, names[i]) THEN Raise("KeyError")
    ELSE LET key == [r \in DOMAIN df.rows |-> KeyOf(df, df.rows[r], names)]
             kept == SelectSeq([r \in DOMAIN df.rows |-> r],
                               LAMBDA r : \A q \in (r + 1)..Len(df.rows) : key[q] # key[r])
         IN  Ok(df.columns, [i \in DOMAIN kept |-> df.rows[kept[i]]])

\* drop_duplicates(subset=names): a row stays when no earlier row has its key
drop_duplicates(df, names) ==
    IF \E i \in DOMAIN names : ~HasCol(df, names[i]) THEN Raise("KeyError")
    ELSE LET key == [r \in DOMAIN df.rows |-> KeyOf(df, df.rows[r], names)]
             kept == SelectSeq([r \in DOMAIN df.rows |-> r],
                               LAMBDA r : \A q \in 1..(r - 1) : key[q] # key[r])
         IN  Ok(df.columns, [i \in DOMAIN kept |-> df.rows[kept[i]]])

\* the label of the column a cell of the pivoted column becomes
Label(c) == IF c.k = "str" THEN c.s ELSE "nan"

\* df.pivot(index, columns, values).reset_index(): one row per value of index
\* (sorted, a missing one first), one column per value of columns (sorted), the
\* cell of a combination that has no row is NaN; ValueError on a repeated pair
pivot(df, index, columns, values) ==
    IF ~HasCol(df, index) \/ ~HasCol(df, columns) \/ ~HasCol(df, values)
    THEN Raise("KeyError")
    ELSE IF \E r, q \in DOMAIN df.rows :
                /\ r # q
                /\ KeyOf(df, df.rows[r], <<index, columns>>)
                     = KeyOf(df, df.rows[q], <<index, columns>>)
    THEN Raise("ValueError")
    ELSE LET idx  == {<<Cell(df, df.rows[r], index)>> : r \in DOMAIN df.rows}
             cls  == {<<Cell(df, df.rows[r], columns)>> : r \in DOMAIN df.rows}
             rws  == SortedKeys(idx)
             cs   == SortedKeys(cls)
             at(a, b) ==
                 IF \E r \in DOMAIN df.rows :
                        KeyOf(df, df.rows[r], <<index, columns>>) = <<a, b>>
                 THEN Cell(df, df.rows[CHOOSE r \in DOMAIN df.rows :
                             KeyOf(df, df.rows[r], <<index, columns>>) = <<a, b>>], values)
                 ELSE NaN
         IN  Ok(<<index>> \o [j \in DOMAIN cs |-> Label(cs[j][1])],
                [i \in DOMAIN rws |->
                    rws[i] \o [j \in DOMAIN cs |-> at(rws[i][1], cs[j][1])]])

parse_wellbeing(csv_dir) ==
    LET df == load_df(csv_dir, "wellbeing.csv")
    IN  IF ~HasCol(df, "wellbeing-estimate") THEN Raise("KeyError")
        ELSE IF ~HasCol(df, "Time") THEN Raise("AttributeError")
        ELSE LET kept   == Ok(df.columns,
                              SelectSeq(df.rows, LAMBDA row : WellbeingKept(df, row)))
                 sub_df == subset_rename_df(kept, wellbeing_cols)
                 dedup  == IF sub_df.kind = "error" THEN sub_df
                           ELSE drop_duplicates(sub_df, <<"la_code", "wellbeing_measure">>)
             IN  IF dedup.kind = "error" THEN dedup
                 ELSE pivot(dedup, "la_code", "wellbeing_measure", "wellbeing_score")

(* ------------------------ parse_population_age ------------------------- *)
\* str(k) for k in range(90)
AgeNames ==
    <<
      "0", "1", "2", "3", "4", "5", "6", "7", "8", "9", "10", "11", "12", "13", "14",
      "15", "16", "17", "18", "19", "20", "21", "22", "23", "24", "25", "26", "27", "28",
      "29", "30", "31", "32", "33", "34", "35", "36", "37", "38", "39", "40", "41", "42",
      "43", "44", "45", "46", "47", "48", "49", "50", "51", "52", "53", "54", "55", "56",
      "57", "58", "59", "60", "61", "62", "63", "64", "65", "66", "67", "68", "69", "70",
      "71", "72", "73", "74", "75", "76", "77", "78", "79", "80", "81", "82", "83", "84",
      "85", "86", "87", "88", "89"
    >>

AgeStr(k) == AgeNames[k + 1]

\* [str(k) for k in range(lo, hi)]
AgeRange(lo, hi) == [i \in 1..(hi - lo) |-> AgeStr(lo + i - 1)]

age_labels == <<"child", "adult", "elderly">>

\* the ages below 18 only
child_cols_short == AgeRange(0, 18)

child_cols == AgeRange(0, 19)

adult_cols == AgeRange(19, 65)

elderly_cols == AgeRange(65, 90) \o <<"90+">>

age_cols(group) ==
    CASE group = "child" -> child_cols
      [] group = "adult" -> adult_cols
      [] group = "elderly" -> elderly_cols

\* df[col_subset].sum(axis=1) of one row; ix[i] is the position of col_subset[i]
RowSum(row, ix) == SumSeq([i \in DOMAIN ix |-> NumOf(row[ix[i]])])

\* df.loc[:, group] = values: replaces the column, or appends it when new
SetColumn(df, group, values) ==
    IF HasCol(df, group)
    THEN Ok(df.columns,
            [r \in DOMAIN df.rows |->
                [df.rows[r] EXCEPT ![ColIndex(df.columns, group)] = values[r]]])
    ELSE Ok(Append(df.columns, group),
            [r \in DOMAIN df.rows |-> Append(df.rows[r], values[r])])

\* one turn of the loop over age_cols.items()
AddAgeGroup(df, group) ==
    IF df.kind = "error" THEN df
    ELSE LET col_subset == age_cols(group)
             ix == [i \in DOMAIN col_subset |-> ColIndex(df.columns, col_subset[i])]
         IN  IF \E i \in DOMAIN ix : ix[i] = 0 THEN Raise("KeyError")
             ELSE SetColumn(df, group,
                            [r \in DOMAIN df.rows |-> Num(RowSum(df.rows[r], ix))])

\* the frame after the loop
WithAgeGroups(df) ==
    AddAgeGroup(AddAgeGroup(AddAgeGroup(df, "child"), "adult"), "elderly")

population_cols ==
    <<<<"LA Code (2021 boundaries)", LA_CODE>>, <<"LA name (2021 boundaries)", LA_NAME>>,
      <<"Ward Code 1", "ward_code">>, <<"Ward Name 1", "ward_name">>,
      <<"All Ages", "total_population">>>>
    \o [i \in DOMAIN age_labels |-> <<age_labels[i], age_labels[i]>>]

population_sums == <<"total_population", "child", "adult", "elderly">>

parse_population_age(csv_dir) ==
    LET df     == WithAgeGroups(load_df(csv_dir, "population_by_age.csv"))
        sub_df == IF df.kind = "error" THEN df ELSE subset_rename_df(df, population_cols)
    IN  IF sub_df.kind = "error" THEN sub_df
        ELSE groupby_sum(sub_df, <<"la_code", "la_name">>, population_sums)

(* ------------------------- the input directory ------------------------ *)
MkCsv(columns, rows) == [columns |-> columns, rows |-> rows]

\* the file without the column called name
DropCol(csv, name) ==
    LET keep == SelectSeq([j \in DOMAIN csv.columns |-> j],
                          LAMBDA j : csv.columns[j] # name)
    IN  MkCsv([i \in DOMAIN keep |-> csv.columns[keep[i]]],
              [r \in DOMAIN csv.rows |-> [i \in DOMAIN keep |-> csv.rows[r][keep[i]]]])

LaFields == {"", "E001", "E002"}

CsvColumns(file_name) ==
    CASE file_name = "rental.csv" ->
            <<"Area", "Area Code1", "Count of rents", "Mean", "Median">>
      [] file_name = "crime.csv" ->
            <<"Local Authority code", "Local Authority name",
              "Household figures (mid-2019) - rounded to 100",
              "Total recorded crime\n (excluding fraud)",
              "Residential burglary (per 1,000 household)">>
      [] file_name = "property_sales.csv" ->
            <<"Local authority code", "Local authority name", "Ward code", "Ward name",
              "Year ending Jun 2021">>
      [] file_name = "house_prices.csv" ->
            <<"Local authority code ", "Local authority name", "Year ending Jun 2021">>
      [] file_name = "earnings_price_ratio.csv" ->
            <<"Code", "Name", "2020">>
      [] file_name = "wellbeing.csv" ->
            <<"V4_3", "Time", "administrative-geography", "Geography",
              "measure-of-wellbeing", "wellbeing-estimate">>
      [] file_name = "population_by_age.csv" ->
            <<"LA Code (2021 boundaries)", "LA name (2021 boundaries)", "Ward Code 1",
              "Ward Name 1", "All Ages">> \o AgeNames \o <<"90+">>

\* one line of a file of the five transforms that drop rows without a code
CsvRow(file_name, la, v) ==
    CASE file_name = "rental.csv" -> <<"A", la, v, "8", "7">>
      [] file_name = "crime.csv" -> <<la, "A", v, "7", "2">>
      [] file_name = "property_sales.csv" -> <<la, "A", "W1", "A", v>>
      [] file_name = "house_prices.csv" -> <<la, "A", v>>
      [] file_name = "earnings_price_ratio.csv" -> <<la, "A", v>>

DropnaFiles == {"rental.csv", "crime.csv", "property_sales.csv", "house_prices.csv",
                "earnings_price_ratio.csv"}

CsvRows(file_name) == {CsvRow(file_name, la, v) : la \in LaFields, v \in {"10", "15", ""}}

WellbeingFilters == {<<"average-mean", "2020-21">>, <<"median", "2020-21">>,
                     <<"average-mean", "2019-20">>}

WellbeingRow(score, la, measure, flt) == <<score, flt[2], la, "A", measure, flt[1]>>

WellbeingRows ==
    {WellbeingRow(score, la, measure, flt) :
        score \in {"7", "8"}, la \in LaFields, measure \in {"happiness", "anxiety"},
        flt \in WellbeingFilters}

\* the per-year counts of a ward: one person of a single age, or one of every age
AgePatterns == {18, 19, 64, 65, 90, 91}

AgeField(pattern, k) == IF pattern = 91 \/ pattern = k THEN "1" ELSE "0"

PopulationRow(la, name, pattern) ==
    <<la, name, "W1", "A", IF pattern = 91 THEN "91" ELSE "1">>
    \o [k \in 1..91 |-> AgeField(pattern, k - 1)]

PopulationAreas == {<<"E001", "A">>, <<"E001", "B">>, <<"", "A">>, <<"E001", "">>}

PopulationRows ==
    {PopulationRow(a[1], a[2], pattern) : a \in PopulationAreas, pattern \in AgePatterns}

DefaultCsv(file_name) ==
    CASE file_name \in DropnaFiles ->
            MkCsv(CsvColumns(file_name),
                  <<CsvRow(file_name, "E001", "10"), CsvRow(file_name, "", "15"),
                    CsvRow(file_name, "E001", "15")>>)
      [] file_name = "wellbeing.csv" ->
            MkCsv(CsvColumns(file_name),
                  <<WellbeingRow("7", "E001", "happiness", <<"average-mean", "2020-21">>),
                    WellbeingRow("8", "E001", "happiness", <<"median", "2020-21">>)>>)
      [] file_name = "population_by_age.csv" ->
            MkCsv(CsvColumns(file_name),
                  <<PopulationRow("E001", "A", 91), PopulationRow("E001", "A", 18)>>)

DefaultDir == [f \in FileNames |-> DefaultCsv(f)]

(* ----------------------------- invocations ----------------------------- *)
Transforms == {"parse_wellbeing", "parse_population_age", "parse_rental_summary",
               "parse_crime", "parse_property_sales", "parse_property_prices",
               "parse_earnings_to_house_price"}

FileOf(t) ==
    CASE t = "parse_wellbeing" -> "wellbeing.csv"
      [] t = "parse_population_age" -> "population_by_age.csv"
      [] t = "parse_rental_summary" -> "rental.csv"
      [] t = "parse_crime" -> "crime.csv"
      [] t = "parse_property_sales" -> "property_sales.csv"
      [] t = "parse_property_prices" -> "house_prices.csv"
      [] t = "parse_earnings_to_house_price" -> "earnings_price_ratio.csv"

ColsOf(t) ==
    CASE t = "parse_wellbeing" -> wellbeing_cols
      [] t = "parse_population_age" -> population_cols
      [] t = "parse_rental_summary" -> rental_cols
      [] t = "parse_crime" -> crime_cols
      [] t = "parse_property_sales" -> property_sales_cols
      [] t = "parse_property_prices" -> property_prices_cols
      [] t = "parse_earnings_to_house_price" -> earnings_cols

Transform(t, csv_dir) ==
    CASE t = "parse_wellbeing" -> parse_wellbeing(csv_dir)
      [] t = "parse_population_age" -> parse_population_age(csv_dir)
      [] t = "parse_rental_summary" -> parse_rental_summary(csv_dir)
      [] t = "parse_crime" -> parse_crime(csv_dir)
      [] t = "parse_property_sales" -> parse_property_sales(csv_dir)
      [] t = "parse_property_prices" -> parse_property_prices(csv_dir)
      [] t = "parse_earnings_to_house_price" -> parse_earnings_to_house_price(csv_dir)

NoArgs == [file_name |-> "", name_dict |-> <<>>]

\* a call of transform t on the directory: it returns or raises, and keeps nothing
Invoke(t) ==
    /\ called' = t
    /\ args' = NoArgs
    /\ ret' = Transform(t, dir)
    /\ dir' = FilesAfterLoad(dir, FileOf(t))
    /\ invoked' = invoked \cup {t}
    /\ UNCHANGED <<LA_CODE, LA_NAME, alone>>

ParseWellbeing == Invoke("parse_wellbeing")
ParsePopulationAge == Invoke("parse_population_age")
ParseRentalSummary == Invoke("parse_rental_summary")
ParseCrime == Invoke("parse_crime")
ParsePropertySales == Invoke("parse_property_sales")
ParsePropertyPrices == Invoke("parse_property_prices")
ParseEarningsToHousePrice == Invoke("parse_earnings_to_house_price")

\* a direct call of subset_rename_df on the frame read from file_name
SubsetRenameDf(file_name, name_dict) ==
    /\ called' = "subset_rename_df"
    /\ args' = [file_name |-> file_name, name_dict |-> name_dict]
    /\ ret' = subset_rename_df(load_df(dir, file_name), name_dict)
    /\ dir' = FilesAfterLoad(dir, file_name)
    /\ invoked' = invoked \cup {"subset_rename_df"}
    /\ UNCHANGED <<LA_CODE, LA_NAME, alone>>

(* ---------------------------- specifications --------------------------- *)
NoRun == [t \in Transforms |-> NoResult]

InitCommon ==
    /\ LA_CODE = "la_code"
    /\ LA_NAME = "la_name"
    /\ called = "none"
    /\ args = NoArgs
    /\ ret = NoResult
    /\ invoked = {}

\* the files of the directory a run starts from: every file well formed, or one
\* of them without one of its columns
StartDirs ==
    {DefaultDir} \cup
    {[DefaultDir EXCEPT ![f] = DropCol(DefaultCsv(f), c)] :
        f \in FileNames,
        c \in {"Area Code1", "Median", "Local Authority code",
               "Total recorded crime\n (excluding fraud)", "Ward code",
               "Year ending Jun 2021", "2020", "V4_3", "measure-of-wellbeing",
               "wellbeing-estimate", "Time", "LA name (2021 boundaries)", "All Ages",
               "18", "90+"}}

Init ==
    /\ InitCommon
    /\ dir \in StartDirs
    /\ alone = [t \in Transforms |-> Transform(t, dir)]

\* any sequence of at most MaxCalls different calls, each repeated at will
Bounded(call) == (Cardinality(invoked) < MaxCalls \/ invoked' = invoked) /\ call

Next ==
    \/ Bounded(ParseWellbeing)
    \/ Bounded(ParsePopulationAge)
    \/ Bounded(ParseRentalSummary)
    \/ Bounded(ParseCrime)
    \/ Bounded(ParsePropertySales)
    \/ Bounded(ParsePropertyPrices)
    \/ Bounded(ParseEarningsToHousePrice)
    \/ \E name_dict \in {rental_cols, crime_cols} :
          Bounded(SubsetRenameDf("rental.csv", name_dict))

Spec == Init /\ [][Next]_vars

\* the five transforms that drop rows without a code, on every small file
InitDropna ==
    /\ InitCommon
    /\ alone = NoRun
    /\ \E f \in DropnaFiles :
        \E rows \in SeqsUpTo(CsvRows(f), MaxRows) :
            dir = [DefaultDir EXCEPT ![f] = MkCsv(CsvColumns(f), rows)]

\* a single call
Once(call) == called = "none" /\ call

NextDropna ==
    \/ Once(ParseRentalSummary)
    \/ Once(ParseCrime)
    \/ Once(ParsePropertySales)
    \/ Once(ParsePropertyPrices)
    \/ Once(ParseEarningsToHousePrice)

SpecDropna == InitDropna /\ [][NextDropna]_vars

\* parse_wellbeing on every small file
InitWellbeing ==
    /\ InitCommon
    /\ alone = NoRun
    /\ \E rows \in SeqsUpTo(WellbeingRows, MaxWellbeingRows) :
        dir = [DefaultDir EXCEPT
                 !["wellbeing.csv"] = MkCsv(CsvColumns("wellbeing.csv"), rows)]

NextWellbeing == Once(ParseWellbeing)

SpecWellbeing == InitWellbeing /\ [][NextWellbeing]_vars

\* parse_population_age on every small file
InitPopulation ==
    /\ InitCommon
    /\ alone = NoRun
    /\ \E rows \in SeqsUpTo(PopulationRows, MaxPopulationRows) :
        dir = [DefaultDir EXCEPT
                 !["population_by_age.csv"] =
                     MkCsv(CsvColumns("population_by_age.csv"), rows)]

NextPopulation == Once(ParsePopulationAge)

SpecPopulation == InitPopulation /\ [][NextPopulation]_vars

\* subset_rename_df on every small frame and rename spec
FrameColumns == <<"a", "b", "c">>

FrameRows == [1..3 -> {"x", "E001"}]

DictKeys == {"a", "c", "d"}

DictValues == {"a", "n"}

NameDicts ==
    {nd \in SeqsUpTo(DictKeys \X DictValues, 2) :
        \A i, j \in DOMAIN nd : i # j => nd[i][1] # nd[j][1]}

InitRename ==
    /\ InitCommon
    /\ alone = NoRun
    /\ \E rows \in SeqsUpTo(FrameRows, MaxFrameRows) :
        dir = [DefaultDir EXCEPT !["rental.csv"] = MkCsv(FrameColumns, rows)]

NextRename == \E name_dict \in NameDicts : Once(SubsetRenameDf("rental.csv", name_dict))

SpecRename == InitRename /\ [][NextRename]_vars

(* ------------------------------- claims -------------------------------- *)
DropnaTransforms == {"parse_rental_summary", "parse_crime", "parse_property_sales",
                     "parse_property_prices", "parse_earnings_to_house_price"}

\* the text of column name in every line of the file of transform t
RawColumn(t, name) ==
    LET csv == dir[FileOf(t)]
    IN  [r \in DOMAIN csv.rows |-> csv.rows[r][ColIndex(csv.columns, name)]]

\* the raw column transform t renames to the join key
LaColumn(t) ==
    LET cols == ColsOf(t)
    IN  cols[CHOOSE i \in DOMAIN cols : cols[i][2] = "la_code"][1]

RawLa(t) == RawColumn(t, LaColumn(t))

RawNum(f) == IF f \in DOMAIN NumTable THEN NumTable[f] ELSE 0

RawCell(f) == IF f \in NAValues THEN NaN ELSE Str(f)

\* C1: a table returned by one of the five transforms with a null-key drop has
\* no missing la_code and no more rows than the input has lines with a
\* non-empty LA-code field, and each of its la_code values is the LA code of
\* such a line: a line with an empty LA-code field never reaches the output.
C1_NullKeyRowsDropped ==
    (called \in DropnaTransforms /\ ret.kind = "ok") =>
        LET la == RawLa(called)
        IN  /\ \A i \in DOMAIN ret.rows : ~isna(Cell(ret, ret.rows[i], "la_code"))
            /\ Len(ret.rows) <= Len(dir[FileOf(called)].rows)
            /\ Len(ret.rows) <= Cardinality({r \in DOMAIN la : la[r] # ""})
            /\ \A i \in DOMAIN ret.rows :
                 \E r \in DOMAIN la :
                    la[r] # "" /\ Cell(ret, ret.rows[i], "la_code") = Str(la[r])

C1_Witness ==
    /\ called = "parse_crime"
    /\ ret.kind = "ok"
    /\ Len(dir["crime.csv"].rows) = 2
    /\ RawLa("parse_crime")[1] = ""
    /\ RawLa("parse_crime")[2] = "E002"
    /\ Len(ret.rows) = 1

\* C3: when every key of the rename spec is a column of the raw table,
\* subset_rename_df returns a table whose columns are the spec's values and
\* nothing else, with the rows of the input in their order, each cell holding
\* the value of the raw column its column was renamed from.
C3_SubsetRenameProjects ==
    (/\ called = "subset_rename_df"
     /\ \A i \in DOMAIN args.name_dict :
           args.name_dict[i][1] \in Range(dir[args.file_name].columns)) =>
        LET nd  == args.name_dict
            csv == dir[args.file_name]
            raw == read_csv(csv)
        IN  /\ ret.kind = "ok"
            /\ Range(ret.columns) = {nd[i][2] : i \in DOMAIN nd}
            /\ Len(ret.columns) = Len(nd)
            /\ Len(ret.rows) = Len(csv.rows)
            /\ \A i \in DOMAIN nd : ret.columns[i] = nd[i][2]
            /\ \A r \in DOMAIN csv.rows : \A i \in DOMAIN nd :
                 ret.rows[r][i] = raw.rows[r][ColIndex(csv.columns, nd[i][1])]

C3_Witness ==
    /\ called = "subset_rename_df"
    /\ args.name_dict = <<<<"c", "a">>, <<"a", "n">>>>
    /\ ret.kind = "ok"
    /\ ret.columns = <<"a", "n">>
    /\ ret.rows = <<<<Str("E001"), Str("x")>>, <<Str("x"), Str("x")>>>>

\* C4: when a key of the rename spec is not a column of the raw table,
\* subset_rename_df raises and returns no table, and a transform whose rename
\* spec names a column its file lacks raises too and returns no table.
C4_MissingColumnRaises ==
    /\ (/\ called = "subset_rename_df"
        /\ \E i \in DOMAIN args.name_dict :
              args.name_dict[i][1] \notin Range(dir[args.file_name].columns))
          => ret = Raise("KeyError")
    /\ \A t \in Transforms :
         (/\ called = t
          /\ \E i \in DOMAIN ColsOf(t) :
                /\ ColsOf(t)[i][1] \notin Range(age_labels)
                /\ ColsOf(t)[i][1] \notin Range(dir[FileOf(t)].columns))
           => (ret.kind = "error" /\ ret.columns = <<>> /\ ret.rows = <<>>)

C4_Witness ==
    /\ called = "parse_crime"
    /\ "Total recorded crime\n (excluding fraud)" \notin Range(dir["crime.csv"].columns)
    /\ "Local Authority code" \in Range(dir["crime.csv"].columns)
    /\ ret = Raise("KeyError")

\* C6: parse_property_sales returns the columns la_code and num_sold, one row
\* for each distinct LA code of the input, whose num_sold is the sum of
\* 'Year ending Jun 2021' over the input lines with that code; lines without
\* a code are in no sum.
C6_SalesSummedPerCode ==
    (called = "parse_property_sales" /\ ret.kind = "ok") =>
        LET la    == RawLa(called)
            sold  == RawColumn(called, "Year ending Jun 2021")
            codes == {la[r] : r \in DOMAIN la} \ NAValues
            total(c) == SumSeq([r \in DOMAIN la |->
                                   IF la[r] = c THEN RawNum(sold[r]) ELSE 0])
        IN  /\ ret.columns = <<"la_code", "num_sold">>
            /\ Len(ret.rows) = Cardinality(codes)
            /\ \A c \in codes :
                 \E i \in DOMAIN ret.rows : ret.rows[i] = <<Str(c), Num(total(c))>>

C6_Witness ==
    /\ called = "parse_property_sales"
    /\ RawLa("parse_property_sales") = <<"E002", "E002">>
    /\ RawColumn("parse_property_sales", "Year ending Jun 2021") = <<"10", "15">>
    /\ ret.rows = <<<<Str("E002"), Num(25)>>>>

\* C9: no invocation changes the input files or the constants LA_CODE and
\* LA_NAME, and whatever was invoked before, a transform returns the table it
\* returns when it is run first and alone on the directory.
C9_NoHiddenState ==
    [][/\ dir' = dir
       /\ LA_CODE' = LA_CODE
       /\ LA_NAME' = LA_NAME
       /\ called' \in Transforms => ret' = alone[called']]_vars

C9_Witness ==
    /\ invoked = {"parse_population_age", "parse_wellbeing", "parse_property_sales"}
    /\ called = "parse_population_age"
    /\ ret.kind = "ok"
    /\ ret.rows # <<>>
    /\ ret = alone["parse_population_age"]

(* parse_wellbeing: the lines of wellbeing.csv and the cells of the result *)
WbLines == DOMAIN dir["wellbeing.csv"].rows

WbLa(r) == RawCell(RawColumn("parse_wellbeing", "administrative-geography")[r])

WbMeasure(r) == RawColumn("parse_wellbeing", "measure-of-wellbeing")[r]

WbScore(r) == Num(RawNum(RawColumn("parse_wellbeing", "V4_3")[r]))

WbEstimate(r) == RawColumn("parse_wellbeing", "wellbeing-estimate")[r]

WbTime(r) == RawColumn("parse_wellbeing", "Time")[r]

\* the lines with the average-mean estimate
WbMean == {r \in WbLines : WbEstimate(r) = "average-mean"}

\* the lines with the average-mean estimate of the period 2020-21
WbMean2021 == {r \in WbMean : WbTime(r) = "2020-21"}

\* the positions of the measure columns of the result
MeasureCols == 2..Len(ret.columns)

\* every pair of the lines S has a score of one of them in the result
Represented(S) ==
    \A r \in S :
        \E i \in DOMAIN ret.rows : \E j \in MeasureCols :
            /\ ret.rows[i][1] = WbLa(r)
            /\ ret.columns[j] = WbMeasure(r)
            /\ \E q \in S : /\ WbLa(q) = WbLa(r)
                            /\ WbMeasure(q) = WbMeasure(r)
                            /\ ret.rows[i][j] = WbScore(q)

\* every score of the result is the score of one of the lines S, at its pair
OnlyFrom(S) ==
    \A i \in DOMAIN ret.rows : \A j \in MeasureCols :
        ~isna(ret.rows[i][j]) =>
            \E q \in S : /\ WbLa(q) = ret.rows[i][1]
                         /\ WbMeasure(q) = ret.columns[j]
                         /\ WbScore(q) = ret.rows[i][j]

\* C2: every row returned by parse_wellbeing and by parse_population_age has
\* a la_code that is not missing.
C2_JoinKeyNeverMissing ==
    (called \in {"parse_wellbeing", "parse_population_age"} /\ ret.kind = "ok") =>
        \A i \in DOMAIN ret.rows : ~isna(Cell(ret, ret.rows[i], "la_code"))

\* C7 as stated: every pair of a line with the average-mean estimate, whatever
\* else the line holds, has a score of such a line in the result, and the
\* result holds no other score.
C7_MeanRowsKept ==
    (called = "parse_wellbeing" /\ ret.kind = "ok") =>
        (Represented(WbMean) /\ OnlyFrom(WbMean))

\* C7 amended: every pair of a line with the average-mean estimate and the
\* period 2020-21 has a score of such a line in the result, and the result
\* holds no other score.
C7_MeanRowsOf2021Kept ==
    (called = "parse_wellbeing" /\ ret.kind = "ok") =>
        (Represented(WbMean2021) /\ OnlyFrom(WbMean2021))

C7_Witness ==
    /\ called = "parse_wellbeing"
    /\ Cardinality(WbLines) = 2
    /\ WbEstimate(1) = "average-mean" /\ WbTime(1) = "2020-21"
    /\ WbEstimate(2) = "median" /\ WbTime(2) = "2020-21"
    /\ WbLa(1) = Str("E001") /\ WbLa(2) = Str("E001")
    /\ WbMeasure(1) = "happiness" /\ WbMeasure(2) = "happiness"
    /\ WbScore(1) = Num(7) /\ WbScore(2) = Num(8)
    /\ ret = Ok(<<"la_code", "happiness">>, <<<<Str("E001"), Num(7)>>>>)

\* C10: parse_wellbeing never fails on a file that has its columns; its result
\* has the column la_code and one column for each measure of the kept lines,
\* one row for each la_code of the kept lines, and each cell holds the score of
\* the first kept line of its la_code and measure, or is missing when no kept
\* line has them.
C10_WideFirstWins ==
    called = "parse_wellbeing" =>
        LET measures == {WbMeasure(r) : r \in WbMean2021}
            first(la, m) == {r \in WbMean2021 :
                               /\ WbLa(r) = la /\ WbMeasure(r) = m
                               /\ \A q \in WbMean2021 :
                                    (WbLa(q) = la /\ WbMeasure(q) = m) => r <= q}
        IN  /\ ret.kind = "ok"
            /\ ret.columns[1] = "la_code"
            /\ {ret.columns[j] : j \in MeasureCols} = measures
            /\ Len(ret.columns) = 1 + Cardinality(measures)
            /\ {ret.rows[i][1] : i \in DOMAIN ret.rows} = {WbLa(r) : r \in WbMean2021}
            /\ \A i, k \in DOMAIN ret.rows : ret.rows[i][1] = ret.rows[k][1] => i = k
            /\ \A i \in DOMAIN ret.rows : \A j \in MeasureCols :
                 LET f == first(ret.rows[i][1], ret.columns[j])
                 IN  IF f = {} THEN isna(ret.rows[i][j])
                     ELSE \A r \in f : ret.rows[i][j] = WbScore(r)

C10_Witness ==
    /\ called = "parse_wellbeing"
    /\ Cardinality(WbLines) = 2
    /\ WbMean2021 = WbLines
    /\ WbLa(1) = Str("E001") /\ WbLa(2) = Str("E001")
    /\ WbMeasure(1) = "happiness" /\ WbMeasure(2) = "happiness"
    /\ WbScore(1) = Num(7) /\ WbScore(2) = Num(8)
    /\ ret = Ok(<<"la_code", "happiness">>, <<<<Str("E001"), Num(7)>>>>)

(* parse_population_age: the lines of population_by_age.csv *)
PopCsv == dir["population_by_age.csv"]

PopLines == DOMAIN PopCsv.rows

PopField(r, name) == PopCsv.rows[r][ColIndex(PopCsv.columns, name)]

\* the people of a line aged lo to hi; at[k + 1] is the position of column str(k)
PopAged(line, at, lo, hi) ==
    SumSeq([k \in 1..(hi - lo + 1) |-> RawNum(line[at[lo + k]])])

\* of every line: all ages, children, adults, elderly
PopCounts ==
    LET at  == [k \in 1..90 |-> ColIndex(PopCsv.columns, AgeStr(k - 1))]
        all == ColIndex(PopCsv.columns, "All Ages")
        top == ColIndex(PopCsv.columns, "90+")
    IN  [r \in PopLines |->
            <<RawNum(PopCsv.rows[r][all]),
              PopAged(PopCsv.rows[r], at, 0, 18),
              PopAged(PopCsv.rows[r], at, 19, 64),
              PopAged(PopCsv.rows[r], at, 65, 89) + RawNum(PopCsv.rows[r][top])>>]

PopAreas ==
    [r \in PopLines |->
        <<RawCell(PopField(r, "LA Code (2021 boundaries)")),
          RawCell(PopField(r, "LA name (2021 boundaries)"))>>]

\* the four sums of counts over the lines S
PopTotals(counts, S) ==
    [j \in 1..4 |->
        Num(SumSeq([r \in DOMAIN counts |-> IF r \in S THEN counts[r][j] ELSE 0]))]

\* the sums of the four population columns of the result
RetTotals ==
    [j \in 1..4 |-> Num(SumSeq([i \in DOMAIN ret.rows |-> NumOf(ret.rows[i][j + 2])]))]

\* C5: in the frame parse_population_age derives, child is the sum of the
\* columns '0' to '18' of the line, adult of '19' to '64', elderly of '65' to
\* '89' and '90+'; the three lists of columns are disjoint and hold every age
\* column once.
C5_AgeBucketsExact ==
    called = "parse_population_age" =>
        \A df \in {WithAgeGroups(load_df(dir, "population_by_age.csv"))} :
        \A counts \in {PopCounts} :
            /\ df.kind = "ok"
            /\ \A r \in PopLines :
                 /\ Cell(df, df.rows[r], "child") = Num(counts[r][2])
                 /\ Cell(df, df.rows[r], "adult") = Num(counts[r][3])
                 /\ Cell(df, df.rows[r], "elderly") = Num(counts[r][4])
            /\ Range(age_cols("child")) \cap Range(age_cols("adult")) = {}
            /\ Range(age_cols("child")) \cap Range(age_cols("elderly")) = {}
            /\ Range(age_cols("adult")) \cap Range(age_cols("elderly")) = {}
            /\ Range(age_cols("child")) \cup Range(age_cols("adult"))
                 \cup Range(age_cols("elderly")) = Range(AgeNames) \cup {"90+"}
            /\ Len(age_cols("child")) + Len(age_cols("adult"))
                 + Len(age_cols("elderly")) = 91

C5_Witness ==
    /\ called = "parse_population_age"
    /\ Cardinality(PopLines) = 1
    /\ PopField(1, "18") = "1" /\ PopField(1, "19") = "0"
    /\ ret = Ok(<<"la_code", "la_name", "total_population", "child", "adult", "elderly">>,
                <<<<Str("E001"), Str("A"), Num(1), Num(1), Num(0), Num(0)>>>>)

\* C8 as stated: the result has one row for each (la_code, la_name) of the
\* input, holding the sums over the lines of that pair, and the totals of its
\* columns are the totals of the input.
C8_EveryWardCounted ==
    (called = "parse_population_age" /\ ret.kind = "ok") =>
        \A counts \in {PopCounts} : \A area \in {PopAreas} :
        LET areas  == {area[r] : r \in PopLines}
        IN  /\ Len(ret.rows) = Cardinality(areas)
            /\ \A a \in areas :
                 \E i \in DOMAIN ret.rows :
                    ret.rows[i] = a \o PopTotals(counts, {r \in PopLines : area[r] = a})
            /\ RetTotals = PopTotals(counts, PopLines)

\* C8 amended: the result has one row for each (la_code, la_name) of the input
\* lines that have both, holding the sums over the lines of that pair, and the
\* totals of its columns are the totals of the input lines that have both.
C8_KeyedWardsCounted ==
    (called = "parse_population_age" /\ ret.kind = "ok") =>
        \A counts \in {PopCounts} : \A area \in {PopAreas} :
        LET keyed  == {r \in PopLines : ~HasNaN(area[r])}
            areas  == {area[r] : r \in keyed}
        IN  /\ Len(ret.rows) = Cardinality(areas)
            /\ \A a \in areas :
                 \E i \in DOMAIN ret.rows :
                    ret.rows[i] = a \o PopTotals(counts, {r \in keyed : area[r] = a})
            /\ RetTotals = PopTotals(counts, keyed)

C8_Witness ==
    /\ called = "parse_population_age"
    /\ Cardinality(PopLines) = 2
    /\ PopAreas[1] = <<Str("E001"), Str("A")>>
    /\ PopAreas[2] = <<Str("E001"), Str("A")>>
    /\ PopField(1, "All Ages") = "91"
    /\ PopField(2, "64") = "1"
    /\ ret.rows = <<<<Str("E001"), Str("A"), Num(92), Num(19), Num(47), Num(26)>>>>

====
